---- MODULE Spec2Model ----
(***************************************************************************)
(* mokei: the reconnecting websocket client (src/src/mokei/wsclient.py)    *)
(* and the server-side websocket route (src/src/mokei/websocket.py).       *)
(*                                                                         *)
(* Scheduling is asyncio's: one thread, and a coroutine gives up control   *)
(* only at an await.  Every action below is the code between two awaits of *)
(* one coroutine, so it is atomic, and the awaits are the only places      *)
(* where other coroutines interleave.  An await on the transport           *)
(* (ws_connect, send_str, the async-for read, sleep) and an await on a     *)
(* gather of handlers are suspension points.                               *)
(***************************************************************************)
EXTENDS Integers, Sequences, FiniteSets, TLC

\* ------------------------------------------------------------- bounds ----
\* send() calls the application makes (each call's text is its own message)
MaxMsgs == 3
\* connections ws_connect establishes
MaxConns == 2
\* connection attempts that fail while the session is open
MaxFails == 1
\* inbound frames the peer delivers
MaxFrames == 1
\* ticks per second of the backoff clock (a delay of 1.0 s is Scale ticks)
Scale == 2
\* _get_backoff calls in a row without a reset, when called on their own
MaxCalls == 7

\* ---------------------------------------------------- program constants --
\* self._default_backoff = 1.0
DefaultBackoff == 1
\* self._max_backoff = 15.0
MaxBackoff == 15

\* the connect() coroutine, as a task that runs _send_unsent_messages
Loop == 0
\* the send() coroutines: call m carries message m
Senders == 1..MaxMsgs
Tasks == {Loop} \cup Senders
Conns == 1..MaxConns

\* what an inbound TEXT frame holds
\*   plain   no marker prefix
\*   event   marker + a JSON object with 'event' and 'data'
\*   missing marker + a JSON object without 'event' or without 'data'
\*   badjson marker + text json.loads rejects
FrameKinds == {"plain", "event", "missing", "badjson"}

VARIABLES
  session,      \* self._session: "none" | "open" | "closed"
  pc,           \* pc[Loop]: where connect() is; pc[m]: where send() call m is
  ws,           \* self._ws: 0 is None, else the connection's number
  up,           \* the transport of connection ws is still connected
  backoff,      \* self._current_backoff, in ticks
  unsent,       \* self._unsent_messages
  inflight,     \* inflight[t]: the message task t passed to send_str, 0 if none
  inflightConn, \* inflightConn[t]: the connection that send_str was called on
  nconn,        \* connections established so far
  nfail,        \* attempts failed so far with the session open
  frames,       \* inbound frames delivered so far
  exitWhy,      \* why connect() ended: "none" | "closed" | "error"
  closeCalled,  \* close() has been called
  handed,       \* history: the messages send_str has returned normally for
  notified,     \* history: notified[c]: _ondisconnect_handler calls for c
  atConnect,    \* history: the queue when the current connection was made
  ev,           \* history: what the last step did
  delay,        \* history: what _get_backoff last returned since the last
                \* reset, 0 if it was not called since
  sinceReset    \* history: _get_backoff calls since the last reset

\* the client's state
cvars == <<session, pc, ws, up, backoff, unsent, inflight, inflightConn, nconn,
           nfail, frames, exitWhy, closeCalled, handed, notified, atConnect, ev,
           delay, sinceReset>>

\* ------------------------------------- the route's bounds and state ----
\* connection handles the server accepts over the run
NumHandles == 3
\* send_text / send_event calls
MaxBroadcasts == 2
\* explicit targets one call names
MaxTargets == 2

Handles == 1..NumHandles
Bcasts == 1..MaxBroadcasts

VARIABLES
  sockets,       \* self.sockets
  hstate,        \* hstate[h]: "new" | "open" | "gone" | "closed"
  rnotified,     \* history: rnotified[h]: _ondisconnect_handler calls for h
  bstate,        \* bstate[b]: "idle" | "sending" | "done" | "raised"
  recipients,    \* recipient_sockets of call b
  pending,       \* the send_to_single_ws of call b still awaiting send_str
  removeSockets, \* remove_sockets of call b
  expected,      \* history: the recipient set the contract gives call b
  sent,          \* history: sent[b][h]: send_str calls b made on h
  failedIn,      \* history: the handles whose send_str raised in b
  evicted        \* history: the handles a send_text took out of self.sockets

rvars == <<sockets, hstate, rnotified, bstate, recipients, pending,
           removeSockets, expected, sent, failedIn, evicted>>

\* ------------------------- inbound text dispatch: bounds and state ----
\* handlers registered per list (per event name, and the text handlers)
MaxHandlers == 2

VARIABLES
  side,      \* whose _ontext_handler runs: "route" | "client"
  frame,     \* the inbound text: [marker, rest]
  origin,    \* history: the (event, data) send_event encoded, <<>> if none
  regEvent,  \* regEvent[n]: handlers registered for event name n (0: no key)
  regText,   \* the number of text handlers registered
  dpc,       \* "idle" | "evgather" | "txtgather" | "returned" | "raised"
  err,       \* the exception raised: "none" | "decode" | "attr" | "type"
  decoded,   \* history: the (event, data) the dispatch read, <<>> if none
  evCalls,   \* history: evCalls[n][i]: calls of handler i of event name n
  evArg,     \* history: the data the event handlers were called with
  txtCalls,  \* history: txtCalls[i]: calls of text handler i
  txtArg     \* history: the text the text handlers were called with

dvars == <<side, frame, origin, regEvent, regText, dpc, err, decoded, evCalls,
           evArg, txtCalls, txtArg>>

Ev(k, t, m) == [kind |-> k, task |-> t, msg |-> m]

SetOf(q) == {q[i] : i \in 1..Len(q)}

\* ---------------------------------------------------------- backoff ------
\* _get_backoff's update: current += current * random.random(), then the cap.
\* random.random() is in [0, 1): the increase is inc ticks, 0 <= inc < current.
BackoffAfter(cur, inc) ==
  IF cur + inc < MaxBackoff * Scale THEN cur + inc ELSE MaxBackoff * Scale

\* _reset_backoff
ResetBackoff == DefaultBackoff * Scale

\* GetBackoff returning the value after its update.
GetBackoffReturnsNew ==
  /\ \E inc \in 0..(backoff - 1) :
       /\ backoff' = BackoffAfter(backoff, inc)
       /\ delay' = BackoffAfter(backoff, inc)
  /\ sinceReset' = sinceReset + 1

\* _get_backoff(): returns the current value and then updates it
GetBackoff ==
  /\ \E inc \in 0..(backoff - 1) : backoff' = BackoffAfter(backoff, inc)
  /\ delay' = backoff
  /\ sinceReset' = sinceReset + 1

\* ------------------------------------------------- _send_unsent_messages --
\* the loop's test and the guard in its body:
\*   while self._unsent_messages:  ...  if not self._ws: break
DrainContinues(q) == q # <<>> /\ ws # 0

\* where a task is once it has left _send_unsent_messages
AfterDrain(t) == IF t = Loop THEN "read" ELSE "done"

\* From the top of the while loop with queue q: either the task calls
\* send_str(q[0]) on self._ws and is suspended in it, or it leaves.
DrainTop(t, q) ==
  IF DrainContinues(q)
  THEN /\ pc' = [pc EXCEPT ![t] = "sending"]
       /\ inflight' = [inflight EXCEPT ![t] = Head(q)]
       /\ inflightConn' = [inflightConn EXCEPT ![t] = ws]
  ELSE /\ pc' = [pc EXCEPT ![t] = AfterDrain(t)]
       /\ inflight' = [inflight EXCEPT ![t] = 0]
       /\ inflightConn' = [inflightConn EXCEPT ![t] = 0]

\* An exception leaves the coroutine.  In connect() it passes through
\* `async with ... as ws` and `async with self._session`, which close both.
Raises(t) ==
  /\ pc' = [pc EXCEPT ![t] = IF t = Loop THEN "exited" ELSE "raised"]
  /\ inflight' = [inflight EXCEPT ![t] = 0]
  /\ inflightConn' = [inflightConn EXCEPT ![t] = 0]
  /\ exitWhy' = IF t = Loop THEN "error" ELSE exitWhy
  /\ session' = IF t = Loop THEN "closed" ELSE session
  /\ up' = IF t = Loop THEN FALSE ELSE up

\* The transport takes a frame while the connection send_str was called on is
\* the current one and connected, and raises ConnectionResetError once it is
\* not.
Connected(t) == inflightConn[t] = ws /\ up

\* send_str returned: popleft() whatever is at the head now, then loop.
\* popleft() of an empty deque raises IndexError, which nothing catches.
SendOk(t) ==
  /\ pc[t] = "sending"
  /\ Connected(t)
  /\ handed' = handed \cup {inflight[t]}
  /\ ev' = Ev("ok", t, inflight[t])
  /\ IF unsent = <<>>
     THEN /\ Raises(t)
          /\ UNCHANGED unsent
     ELSE /\ unsent' = Tail(unsent)
          /\ DrainTop(t, Tail(unsent))
          /\ UNCHANGED <<exitWhy, session, up>>
  /\ UNCHANGED <<ws, backoff, delay, sinceReset, nconn, nfail, frames,
                 closeCalled, notified, atConnect>>
  /\ UNCHANGED <<rvars, dvars>>

\* SendFail with the failed message dropped from the queue, as if the except
\* clause fell through to the popleft().
SendFailDrops(t) ==
  /\ pc[t] = "sending"
  /\ ~Connected(t)
  /\ ev' = Ev("fail", t, inflight[t])
  /\ pc' = [pc EXCEPT ![t] = AfterDrain(t)]
  /\ inflight' = [inflight EXCEPT ![t] = 0]
  /\ inflightConn' = [inflightConn EXCEPT ![t] = 0]
  /\ unsent' = IF unsent = <<>> THEN unsent ELSE Tail(unsent)
  /\ UNCHANGED <<session, ws, up, backoff, delay, sinceReset, nconn, nfail,
                 frames, exitWhy, closeCalled, handed, notified, atConnect>>
  /\ UNCHANGED <<rvars, dvars>>

\* send_str raised ConnectionResetError: break.
SendFail(t) ==
  /\ pc[t] = "sending"
  /\ ~Connected(t)
  /\ ev' = Ev("fail", t, inflight[t])
  /\ pc' = [pc EXCEPT ![t] = AfterDrain(t)]
  /\ inflight' = [inflight EXCEPT ![t] = 0]
  /\ inflightConn' = [inflightConn EXCEPT ![t] = 0]
  /\ UNCHANGED <<session, ws, up, backoff, delay, sinceReset, unsent, nconn,
                 nfail, frames, exitWhy, closeCalled, handed, notified,
                 atConnect>>
  /\ UNCHANGED <<rvars, dvars>>

\* send(text): append, then _send_unsent_messages up to its first await.
\* Calls are numbered in the order they are made.
Send(m) ==
  /\ pc[m] = "idle"
  /\ \A k \in Senders : k < m => pc[k] # "idle"
  /\ unsent' = Append(unsent, m)
  /\ DrainTop(m, Append(unsent, m))
  /\ ev' = Ev("send", m, m)
  /\ UNCHANGED <<session, ws, up, backoff, delay, sinceReset, nconn, nfail,
                 frames, exitWhy, closeCalled, handed, notified, atConnect>>
  /\ UNCHANGED <<rvars, dvars>>

\* ------------------------------------------------------------ connect() --
\* connect() is called: the session is made and ws_connect awaited.
Connect ==
  /\ pc[Loop] = "idle"
  /\ session' = "open"
  /\ pc' = [pc EXCEPT ![Loop] = "connecting"]
  /\ ev' = Ev("step", Loop, 0)
  /\ UNCHANGED <<ws, up, backoff, delay, sinceReset, unsent, inflight,
                 inflightConn, nconn, nfail, frames, exitWhy, closeCalled,
                 handed, notified, atConnect>>
  /\ UNCHANGED <<rvars, dvars>>

\* ConnectOk without the call of _reset_backoff().
ConnectOkNoReset ==
  /\ pc[Loop] = "connecting"
  /\ session = "open"
  /\ nconn < MaxConns
  /\ \A t \in Senders : pc[t] # "sending"
  /\ nconn' = nconn + 1
  /\ ws' = nconn + 1
  /\ up' = TRUE
  /\ atConnect' = SetOf(unsent)
  /\ pc' = [pc EXCEPT ![Loop] = "onconnect"]
  /\ ev' = Ev("step", Loop, 0)
  /\ UNCHANGED <<session, unsent, inflight, inflightConn, nfail, frames,
                 exitWhy, closeCalled, handed, notified, backoff, delay,
                 sinceReset>>
  /\ UNCHANGED <<rvars, dvars>>

\* ws_connect succeeded: _reset_backoff(), self._ws = ws, await the connect
\* handlers.  A send_str left pending on the connection before has been
\* resumed by then: its transport was closed at least one sleep ago.
ConnectOk ==
  /\ pc[Loop] = "connecting"
  /\ session = "open"
  /\ nconn < MaxConns
  /\ \A t \in Senders : pc[t] # "sending"
  /\ nconn' = nconn + 1
  /\ ws' = nconn + 1
  /\ up' = TRUE
  /\ backoff' = ResetBackoff
  /\ sinceReset' = 0
  /\ delay' = 0
  /\ atConnect' = SetOf(unsent)
  /\ pc' = [pc EXCEPT ![Loop] = "onconnect"]
  /\ ev' = Ev("step", Loop, 0)
  /\ UNCHANGED <<session, unsent, inflight, inflightConn, nfail, frames,
                 exitWhy, closeCalled, handed, notified>>
  /\ UNCHANGED <<rvars, dvars>>

\* The tail of an iteration: self._ws = None, then sleep(_get_backoff()).
ToSleep ==
  /\ ws' = 0
  /\ up' = FALSE
  /\ GetBackoff
  /\ pc' = [pc EXCEPT ![Loop] = "sleep"]

\* After the try statement: `if self._ws:` awaits the disconnect handlers for
\* the connection; with no connection the iteration goes straight to its tail.
AfterTry ==
  IF ws # 0
  THEN /\ pc' = [pc EXCEPT ![Loop] = "ondisconnect"]
       /\ notified' = [notified EXCEPT ![ws] = @ + 1]
       /\ UNCHANGED <<ws, up, backoff, delay, sinceReset>>
  ELSE /\ ToSleep
       /\ UNCHANGED notified

\* ws_connect raised aiohttp.ClientError: caught.  An attempt on a closed
\* session's connector cannot succeed; the bound is on the failures of an
\* open session only.
ConnectFail ==
  /\ pc[Loop] = "connecting"
  /\ session = "closed" \/ nfail < MaxFails
  /\ nfail' = IF session = "open" THEN nfail + 1 ELSE nfail
  /\ AfterTry
  /\ ev' = Ev("step", Loop, 0)
  /\ UNCHANGED <<session, unsent, inflight, inflightConn, nconn, frames,
                 exitWhy, closeCalled, handed, atConnect>>
  /\ UNCHANGED <<rvars, dvars>>

\* the connect handlers are done: _send_unsent_messages up to its first await
OnConnectDone ==
  /\ pc[Loop] = "onconnect"
  /\ DrainTop(Loop, unsent)
  /\ ev' = Ev("step", Loop, 0)
  /\ UNCHANGED <<session, ws, up, backoff, delay, sinceReset, unsent, nconn,
                 nfail, frames, exitWhy, closeCalled, handed, notified,
                 atConnect>>
  /\ UNCHANGED <<rvars, dvars>>

\* `async for msg in ws` yields a TEXT frame: _ontext_handler(ws, msg.data).
\*   badjson: json.loads raises; JSONDecodeError is not an aiohttp.ClientError
\*   missing: return before any handler
\*   event:   await the gather of the event's handlers
\*   plain:   await the gather of the text handlers
RecvText(kind) ==
  /\ pc[Loop] = "read"
  /\ frames < MaxFrames
  /\ frames' = frames + 1
  /\ ev' = Ev("frame", Loop, 0)
  /\ CASE kind = "badjson" ->
            /\ Raises(Loop)
       [] kind = "missing" ->
            /\ UNCHANGED <<pc, inflight, inflightConn, exitWhy, session, up>>
       [] kind = "event" ->
            /\ pc' = [pc EXCEPT ![Loop] = "evhandlers"]
            /\ UNCHANGED <<inflight, inflightConn, exitWhy, session, up>>
       [] kind = "plain" ->
            /\ pc' = [pc EXCEPT ![Loop] = "txthandlers"]
            /\ UNCHANGED <<inflight, inflightConn, exitWhy, session, up>>
  /\ UNCHANGED <<ws, backoff, delay, sinceReset, unsent, nconn, nfail,
                 closeCalled, handed, notified, atConnect>>
  /\ UNCHANGED <<rvars, dvars>>

\* the event's handlers are done: await the gather of the text handlers
EventHandlersDone ==
  /\ pc[Loop] = "evhandlers"
  /\ pc' = [pc EXCEPT ![Loop] = "txthandlers"]
  /\ ev' = Ev("step", Loop, 0)
  /\ UNCHANGED <<session, ws, up, backoff, delay, sinceReset, unsent,
                 inflight, inflightConn, nconn, nfail, frames, exitWhy,
                 closeCalled, handed, notified, atConnect>>
  /\ UNCHANGED <<rvars, dvars>>

\* the text handlers are done: back to the read
TextHandlersDone ==
  /\ pc[Loop] = "txthandlers"
  /\ pc' = [pc EXCEPT ![Loop] = "read"]
  /\ ev' = Ev("step", Loop, 0)
  /\ UNCHANGED <<session, ws, up, backoff, delay, sinceReset, unsent,
                 inflight, inflightConn, nconn, nfail, frames, exitWhy,
                 closeCalled, handed, notified, atConnect>>
  /\ UNCHANGED <<rvars, dvars>>

\* The peer goes away (a close, a reset, a transport error).
Drop ==
  /\ ws # 0
  /\ up
  /\ up' = FALSE
  /\ ev' = Ev("step", Loop, 0)
  /\ UNCHANGED <<session, pc, ws, backoff, delay, sinceReset, unsent,
                 inflight, inflightConn, nconn, nfail, frames, exitWhy,
                 closeCalled, handed, notified, atConnect>>
  /\ UNCHANGED <<rvars, dvars>>

\* The read ends (the iterator stops on a close, an ERROR message breaks, or
\* aiohttp.ClientError is caught).
StreamEnd ==
  /\ pc[Loop] = "read"
  /\ ~up
  /\ AfterTry
  /\ ev' = Ev("step", Loop, 0)
  /\ UNCHANGED <<session, unsent, inflight, inflightConn, nconn, nfail, frames,
                 exitWhy, closeCalled, handed, atConnect>>
  /\ UNCHANGED <<rvars, dvars>>

\* the disconnect handlers are done: self._ws = None, sleep(_get_backoff())
DisconnectDone ==
  /\ pc[Loop] = "ondisconnect"
  /\ ToSleep
  /\ ev' = Ev("step", Loop, 0)
  /\ UNCHANGED <<session, unsent, inflight, inflightConn, nconn, nfail, frames,
                 exitWhy, closeCalled, handed, notified, atConnect>>
  /\ UNCHANGED <<rvars, dvars>>

\* SleepDone with the closed session's error swallowed: the loop goes back to
\* sleep instead of ending.
SleepDoneRetries ==
  /\ pc[Loop] = "sleep"
  /\ pc' = [pc EXCEPT ![Loop] = IF session = "closed" THEN "sleep"
                                 ELSE "connecting"]
  /\ ev' = Ev("step", Loop, 0)
  /\ UNCHANGED <<session, ws, up, backoff, delay, sinceReset, unsent,
                 inflight, inflightConn, nconn, nfail, frames, exitWhy,
                 closeCalled, handed, notified, atConnect>>
  /\ UNCHANGED <<rvars, dvars>>

\* The sleep is over: the next session.ws_connect(self.url).  On a closed
\* session aiohttp raises RuntimeError, which `except aiohttp.ClientError`
\* does not catch, so connect() ends.
SleepDone ==
  /\ pc[Loop] = "sleep"
  /\ IF session = "closed"
     THEN /\ pc' = [pc EXCEPT ![Loop] = "exited"]
          /\ exitWhy' = "closed"
     ELSE /\ pc' = [pc EXCEPT ![Loop] = "connecting"]
          /\ UNCHANGED exitWhy
  /\ ev' = Ev("step", Loop, 0)
  /\ UNCHANGED <<session, ws, up, backoff, delay, sinceReset, unsent,
                 inflight, inflightConn, nconn, nfail, frames, closeCalled,
                 handed, notified, atConnect>>
  /\ UNCHANGED <<rvars, dvars>>

\* close(): self._session.close(), which closes the session's transports.
Close ==
  /\ session = "open"
  /\ pc[Loop] # "exited"
  /\ session' = "closed"
  /\ up' = FALSE
  /\ closeCalled' = TRUE
  /\ ev' = Ev("step", Loop, 0)
  /\ UNCHANGED <<pc, ws, backoff, delay, sinceReset, unsent, inflight,
                 inflightConn, nconn, nfail, frames, exitWhy, handed,
                 notified, atConnect>>
  /\ UNCHANGED <<rvars, dvars>>


\* ================================================== MokeiWebSocketRoute ===
\* the values of `exclude`: None, one MokeiWebSocket, or an iterable of them
NoExclude == [tag |-> "none", one |-> 0, many |-> {}]
OneExclude(h) == [tag |-> "one", one |-> h, many |-> {}]
ManyExclude(S) == [tag |-> "many", one |-> 0, many |-> S]

\* bool(x): None and an empty collection are false; MokeiWebSocket.__bool__
\* returns True
Truthy(x) == x.tag = "one" \/ (x.tag = "many" /\ x.many # {})

\* exclude = exclude or (); a single MokeiWebSocket becomes (exclude,)
HarmonizedExclude(x) ==
  IF ~Truthy(x) THEN {}
  ELSE IF x.tag = "one" THEN {x.one}
  ELSE x.many

\* RecipientSockets without the isinstance branch: a single handle given as
\* exclude is not harmonized to a tuple and excludes nothing.
RecipientSocketsNoSingle(target, exclude) ==
  (IF target # <<>> THEN SetOf(target) ELSE sockets)
    \ (IF exclude.tag = "many" THEN exclude.many ELSE {})

\* recipient_sockets: the targets if any are given, else self.sockets, less
\* the harmonized exclude
RecipientSockets(target, exclude) ==
  (IF target # <<>> THEN SetOf(target) ELSE sockets) \ HarmonizedExclude(exclude)

\* The recipient set of the broadcast contract: the targets if any target is
\* given, else the members at the call, less every handle in exclude, which
\* is a single handle or a collection.
ContractRecipients(target, exclude, current) ==
  LET base == IF Len(target) > 0 THEN {target[i] : i \in 1..Len(target)}
              ELSE current
      excluded == CASE exclude.tag = "one" -> {exclude.one}
                    [] exclude.tag = "many" -> exclude.many
                    [] OTHER -> {}
  IN  {h \in base : h \notin excluded}

\* The connection is accepted: the handle joins self.sockets and the connect
\* handlers run.  Handles are numbered in the order they are accepted.
Admit(h) ==
  /\ hstate[h] = "new"
  /\ \A k \in Handles : k < h => hstate[k] # "new"
  /\ hstate' = [hstate EXCEPT ![h] = "open"]
  /\ sockets' = sockets \cup {h}
  /\ UNCHANGED <<rnotified, bstate, recipients, pending, removeSockets,
                 expected, sent, failedIn, evicted>>
  /\ UNCHANGED <<cvars, dvars>>

\* The peer of h goes away: from now on send_str on h raises
\* ConnectionResetError.
PeerGone(h) ==
  /\ hstate[h] = "open"
  /\ hstate' = [hstate EXCEPT ![h] = "gone"]
  /\ UNCHANGED <<sockets, rnotified, bstate, recipients, pending,
                 removeSockets, expected, sent, failedIn, evicted>>
  /\ UNCHANGED <<cvars, dvars>>

\* The connection's read loop ends: the handle leaves self.sockets if it is
\* still there and _ondisconnect_handler(h) is called.
Disconnect(h) ==
  /\ hstate[h] = "gone"
  /\ hstate' = [hstate EXCEPT ![h] = "closed"]
  /\ sockets' = sockets \ {h}
  /\ rnotified' = [rnotified EXCEPT ![h] = @ + 1]
  /\ UNCHANGED <<bstate, recipients, pending, removeSockets, expected, sent,
                 failedIn, evicted>>
  /\ UNCHANGED <<cvars, dvars>>

\* send_text(message, *target, exclude=exclude) up to the await of the
\* gather: every send_to_single_ws has called send_str.  A gather of nothing
\* is done at once, and so is the removal loop over an empty remove_sockets.
SendText(b, target, exclude) ==
  /\ bstate[b] = "idle"
  /\ \A k \in Bcasts : k < b => bstate[k] # "idle"
  /\ LET r == RecipientSockets(target, exclude) IN
       /\ recipients' = [recipients EXCEPT ![b] = r]
       /\ pending' = [pending EXCEPT ![b] = r]
       /\ sent' = [sent EXCEPT ![b] = [h \in Handles |-> IF h \in r THEN 1 ELSE 0]]
       /\ bstate' = [bstate EXCEPT ![b] = IF r = {} THEN "done" ELSE "sending"]
  /\ expected' = [expected EXCEPT ![b] =
                    ContractRecipients(target, exclude, sockets)]
  /\ UNCHANGED <<sockets, hstate, rnotified, removeSockets, failedIn, evicted>>
  /\ UNCHANGED <<cvars, dvars>>

\* SendSettles without the try/except: the ConnectionResetError reaches the
\* gather and send_text raises it.
SendSettlesUncaught(b, h) ==
  /\ bstate[b] = "sending"
  /\ h \in pending[b]
  /\ pending' = [pending EXCEPT ![b] = @ \ {h}]
  /\ bstate' = [bstate EXCEPT ![b] = IF hstate[h] = "open" THEN @ ELSE "raised"]
  /\ failedIn' = [failedIn EXCEPT ![b] = IF hstate[h] = "open" THEN @ ELSE @ \cup {h}]
  /\ UNCHANGED <<sockets, hstate, rnotified, recipients, removeSockets,
                 expected, sent, evicted>>
  /\ UNCHANGED <<cvars, dvars>>

\* SendSettles with the eviction also calling the disconnect handlers.
SendSettlesNotifies(b, h) ==
  /\ bstate[b] = "sending"
  /\ h \in pending[b]
  /\ pending' = [pending EXCEPT ![b] = @ \ {h}]
  /\ IF hstate[h] = "open"
     THEN UNCHANGED <<sockets, removeSockets, failedIn, evicted, rnotified>>
     ELSE /\ removeSockets' = [removeSockets EXCEPT ![b] = @ \cup {h}]
          /\ failedIn' = [failedIn EXCEPT ![b] = @ \cup {h}]
          /\ sockets' = sockets \ {h}
          /\ evicted' = evicted \cup ({h} \cap sockets)
          /\ rnotified' = [rnotified EXCEPT ![h] =
                             IF h \in sockets THEN @ + 1 ELSE @]
  /\ UNCHANGED <<hstate, bstate, recipients, expected, sent>>
  /\ UNCHANGED <<cvars, dvars>>

\* SendSettles without the `in self.sockets` test: removing a handle that is
\* no longer a member raises KeyError, which reaches the gather.
SendSettlesUnguarded(b, h) ==
  /\ bstate[b] = "sending"
  /\ h \in pending[b]
  /\ pending' = [pending EXCEPT ![b] = @ \ {h}]
  /\ IF hstate[h] = "open"
     THEN UNCHANGED <<sockets, removeSockets, failedIn, evicted, bstate>>
     ELSE /\ removeSockets' = [removeSockets EXCEPT ![b] = @ \cup {h}]
          /\ failedIn' = [failedIn EXCEPT ![b] = @ \cup {h}]
          /\ sockets' = sockets \ {h}
          /\ evicted' = evicted \cup ({h} \cap sockets)
          /\ bstate' = [bstate EXCEPT ![b] = IF h \in sockets THEN @ ELSE "raised"]
  /\ UNCHANGED <<hstate, rnotified, recipients, expected, sent>>
  /\ UNCHANGED <<cvars, dvars>>

\* send_to_single_ws(message, h) of call b resumes.  send_str returned, or it
\* raised ConnectionResetError: remove_sockets.append(h), and h is taken out
\* of self.sockets if it is in it.
SendSettles(b, h) ==
  /\ bstate[b] = "sending"
  /\ h \in pending[b]
  /\ pending' = [pending EXCEPT ![b] = @ \ {h}]
  /\ IF hstate[h] = "open"
     THEN UNCHANGED <<sockets, removeSockets, failedIn, evicted>>
     ELSE /\ removeSockets' = [removeSockets EXCEPT ![b] = @ \cup {h}]
          /\ failedIn' = [failedIn EXCEPT ![b] = @ \cup {h}]
          /\ sockets' = sockets \ {h}
          /\ evicted' = evicted \cup ({h} \cap sockets)
  /\ UNCHANGED <<hstate, rnotified, bstate, recipients, expected, sent>>
  /\ UNCHANGED <<cvars, dvars>>

\* The gather is done: every handle of remove_sockets that is in self.sockets
\* is removed from it, and send_text returns.
SendTextReturns(b) ==
  /\ bstate[b] = "sending"
  /\ pending[b] = {}
  /\ sockets' = sockets \ removeSockets[b]
  /\ evicted' = evicted \cup (removeSockets[b] \cap sockets)
  /\ bstate' = [bstate EXCEPT ![b] = "done"]
  /\ UNCHANGED <<hstate, rnotified, recipients, pending, removeSockets,
                 expected, sent, failedIn>>
  /\ UNCHANGED <<cvars, dvars>>

\* the handles a caller can hold: those accepted so far
Accepted == {h \in Handles : hstate[h] # "new"}

\* the target tuples a call can name
TargetTuples ==
  {<<>>} \cup UNION {[1..n -> Accepted] : n \in 1..MaxTargets}

\* the exclude values a call can pass
ExcludeValues ==
  {NoExclude} \cup {OneExclude(h) : h \in Accepted}
              \cup {ManyExclude(S) : S \in SUBSET Accepted}

\* ======================================================== event envelope ==
\* A JSON value (what json.loads returns, what json.dumps is given):
\* <<tag, text, parts>>.  A dict is the sequence of its items, in order.
Null == <<"null", "", <<>>>>
Bool(b) == <<"bool", b, <<>>>>
Num(n) == <<"num", n, <<>>>>
Str(s) == <<"str", s, <<>>>>
List(items) == <<"list", "", items>>
Dict(pairs) == <<"dict", "", pairs>>

\* a string with a character outside ASCII, and its \uXXXX form
NonAscii == "caf<e9>"
NonAsciiEscaped == "caf\\u00e9"

\* Unescape that leaves a \\uXXXX escape as it is written.
UnescapeKeeps(s) == s

\* json.dumps escapes what is not ASCII (ensure_ascii); json.loads undoes it
Escape(s) == IF s = NonAscii THEN NonAsciiEscaped ELSE s
Unescape(s) == IF s = NonAsciiEscaped THEN NonAscii ELSE s

\* the tokens of a JSON text
LBrace == <<"p", "{">>
RBrace == <<"p", "}">>
LBracket == <<"p", "[">>
RBracket == <<"p", "]">>
Colon == <<"p", ":">>
Comma == <<"p", ",">>

RECURSIVE Dumps(_)
RECURSIVE DumpItems(_)
RECURSIVE DumpPairs(_)
\* json.dumps(v), as tokens
Dumps(v) ==
  CASE v[1] = "null" -> << <<"k", "null">> >>
    [] v[1] = "bool" -> << <<"k", v[2]>> >>
    [] v[1] = "num"  -> << <<"n", v[2]>> >>
    [] v[1] = "str"  -> << <<"s", Escape(v[2])>> >>
    [] v[1] = "list" -> <<LBracket>> \o DumpItems(v[3]) \o <<RBracket>>
    [] v[1] = "dict" -> <<LBrace>> \o DumpPairs(v[3]) \o <<RBrace>>

DumpItems(items) ==
  IF items = <<>> THEN <<>>
  ELSE IF Len(items) = 1 THEN Dumps(items[1])
  ELSE Dumps(Head(items)) \o <<Comma>> \o DumpItems(Tail(items))

DumpPairs(pairs) ==
  IF pairs = <<>> THEN <<>>
  ELSE LET one == << <<"s", Escape(pairs[1][1])>>, Colon >> \o Dumps(pairs[1][2])
       IN  IF Len(pairs) = 1 THEN one
           ELSE one \o <<Comma>> \o DumpPairs(Tail(pairs))

\* the result of parsing: a value and the tokens left, or a failure
Parsed(v, rest) == [ok |-> TRUE, val |-> v, rest |-> rest]
ParseFail == [ok |-> FALSE, val |-> Null, rest |-> <<>>]

RECURSIVE ParseValue(_)
RECURSIVE ParseItems(_, _)
RECURSIVE ParsePairs(_, _)
\* the JSON value at the head of the tokens ts
ParseValue(ts) ==
  IF ts = <<>> THEN ParseFail
  ELSE LET t == Head(ts)
           more == Tail(ts)
       IN  CASE t[1] = "k" /\ t[2] = "null" -> Parsed(Null, more)
             [] t[1] = "k" /\ t[2] # "null" -> Parsed(Bool(t[2]), more)
             [] t[1] = "n" -> Parsed(Num(t[2]), more)
             [] t[1] = "s" -> Parsed(Str(Unescape(t[2])), more)
             [] t = LBracket ->
                  IF more # <<>> /\ Head(more) = RBracket
                  THEN Parsed(List(<<>>), Tail(more))
                  ELSE ParseItems(more, <<>>)
             [] t = LBrace ->
                  IF more # <<>> /\ Head(more) = RBrace
                  THEN Parsed(Dict(<<>>), Tail(more))
                  ELSE ParsePairs(more, <<>>)
             [] OTHER -> ParseFail

\* the items of an array after `[`, acc being those read so far
ParseItems(ts, acc) ==
  LET r == ParseValue(ts) IN
    IF ~r.ok \/ r.rest = <<>> THEN ParseFail
    ELSE IF Head(r.rest) = Comma
         THEN ParseItems(Tail(r.rest), Append(acc, r.val))
    ELSE IF Head(r.rest) = RBracket
         THEN Parsed(List(Append(acc, r.val)), Tail(r.rest))
    ELSE ParseFail

\* the members of an object after `{`, acc being those read so far
ParsePairs(ts, acc) ==
  IF Len(ts) < 3 \/ ts[1][1] # "s" \/ ts[2] # Colon THEN ParseFail
  ELSE LET r == ParseValue(Tail(Tail(ts)))
           pair == <<Unescape(ts[1][2]), r.val>>
       IN  IF ~r.ok \/ r.rest = <<>> THEN ParseFail
           ELSE IF Head(r.rest) = Comma
                THEN ParsePairs(Tail(r.rest), Append(acc, pair))
           ELSE IF Head(r.rest) = RBrace
                THEN Parsed(Dict(Append(acc, pair)), Tail(r.rest))
           ELSE ParseFail

\* Loads that takes a text it cannot parse for an empty object, as if the
\* decode error were caught and the frame dropped.
LoadsLenient(ts) ==
  LET r == ParseValue(ts) IN
    IF r.ok /\ r.rest = <<>> THEN r ELSE [ok |-> TRUE, val |-> Dict(<<>>), rest |-> <<>>]

\* json.loads(text): the whole text is one value, else JSONDecodeError
Loads(ts) ==
  LET r == ParseValue(ts) IN IF r.ok /\ r.rest = <<>> THEN r ELSE ParseFail

\* `key in d` and d.get(key) of a dict (None when the key is missing); of a
\* repeated key the last item counts
HasKey(d, key) == \E i \in 1..Len(d[3]) : d[3][i][1] = key
Get(d, key) ==
  IF HasKey(d, key)
  THEN LET i == CHOOSE i \in 1..Len(d[3]) :
                   /\ d[3][i][1] = key
                   /\ \A j \in (i + 1)..Len(d[3]) : d[3][j][1] # key
       IN  d[3][i][2]
  ELSE Null

\* `not v`
Falsy(v) ==
  \/ v[1] = "null"
  \/ v[1] = "bool" /\ v[2] = "false"
  \/ v[1] = "num" /\ v[2] = "0"
  \/ v[1] = "str" /\ v[2] = ""
  \/ v[1] \in {"list", "dict"} /\ v[3] = <<>>

\* a list or a dict cannot be a key
Hashable(v) == v[1] \notin {"list", "dict"}

\* the event names handlers are registered for
EventNames == {"", "a", NonAscii}

\* send_event's message: _MEM + json.dumps({'event': event, 'data': data})
SendEventMessage(event, data) ==
  [marker |-> TRUE,
   rest |-> Dumps(Dict(<< <<"event", event>>, <<"data", data>> >>))]

\* ---- the inputs ----
\* values of `data`
DataValues ==
  { Null, Num("1"), Str(NonAscii), List(<< Num("1"), Str(NonAscii) >>),
    Dict(<< <<"k", List(<< Null >>)>> >>) }

\* values of `event` in an inbound object
EventValues == { Null, Str(""), Str("a"), Str(NonAscii), Num("1") }

\* inbound JSON objects: with or without 'event', with or without 'data'
Objects ==
  { Dict(<< <<"event", e>>, <<"data", d>> >>) : e \in EventValues, d \in DataValues }
    \cup { Dict(<< <<"event", e>> >>) : e \in EventValues }
    \cup { Dict(<< <<"data", d>> >>) : d \in DataValues }
    \cup { Dict(<<>>) }

\* texts that are JSON but no object
NonObjects == { Num("1"), List(<< Num("1"), Str(NonAscii) >>) }

\* texts json.loads rejects: nothing, an open brace, an object cut short,
\* an object followed by more
Malformed ==
  { <<>>, <<LBrace>>,
    SubSeq(Dumps(Dict(<< <<"event", Str("a")>>, <<"data", Null>> >>)), 1, 8),
    Dumps(Dict(<< <<"event", Str("a")>> >>)) \o <<RBrace>> }

\* what follows the marker, or stands alone, in an inbound text
Rests == {Dumps(v) : v \in Objects \cup NonObjects} \cup Malformed

Frames == [marker : BOOLEAN, rest : Rests]

NoCalls == [i \in 1..MaxHandlers |-> 0]

\* gather(*(handler(...) for handler in handlers)): each of the n handlers
\* of the list is called once
CallEach(calls, n) ==
  [i \in 1..MaxHandlers |-> IF i <= n THEN calls[i] + 1 ELSE calls[i]]

\* the dispatch ends by an exception
DispatchRaises(e) ==
  /\ dpc' = "raised"
  /\ err' = e
  /\ UNCHANGED <<decoded, evCalls, evArg, txtCalls, txtArg>>

\* the dispatch returns with no handler called
DispatchDrops ==
  /\ dpc' = "returned"
  /\ UNCHANGED <<err, decoded, evCalls, evArg, txtCalls, txtArg>>

\* await gather(text handlers, called with the message)
GatherText ==
  /\ dpc' = "txtgather"
  /\ txtCalls' = CallEach(txtCalls, regText)
  /\ txtArg' = frame

\* ---- MokeiWebSocketRoute._ontext_handler ----
\* up to its await, or to its return or exception
RouteOnText ==
  /\ side = "route"
  /\ dpc = "idle"
  /\ IF ~frame.marker
     THEN /\ GatherText
          /\ UNCHANGED <<err, decoded, evCalls, evArg>>
     ELSE LET r == Loads(frame.rest) IN
       IF ~r.ok THEN DispatchRaises("decode")
       ELSE IF r.val[1] # "dict" THEN DispatchRaises("attr")
       ELSE LET event == Get(r.val, "event")
                data == Get(r.val, "data")
            IN  IF Falsy(event) THEN DispatchDrops
                ELSE IF ~Hashable(event) THEN DispatchRaises("type")
                ELSE IF ~(event[1] = "str" /\ event[2] \in EventNames
                            /\ regEvent[event[2]] > 0)
                     \* .get(event) is None, and `for handler in None`
                     THEN /\ dpc' = "raised"
                          /\ err' = "type"
                          /\ decoded' = <<event, data>>
                          /\ UNCHANGED <<evCalls, evArg, txtCalls, txtArg>>
                     ELSE /\ dpc' = "evgather"
                          /\ decoded' = <<event, data>>
                          /\ evCalls' = [evCalls EXCEPT ![event[2]] =
                                           CallEach(@, regEvent[event[2]])]
                          /\ evArg' = data
                          /\ UNCHANGED <<err, txtCalls, txtArg>>
  /\ UNCHANGED <<side, frame, origin, regEvent, regText>>
  /\ UNCHANGED <<cvars, rvars>>

\* RouteHandlersDone with the text handlers gathered after the event's, as
\* the client does.
RouteHandlersDoneAlsoText ==
  /\ side = "route"
  /\ dpc \in {"evgather", "txtgather"}
  /\ IF dpc = "evgather"
     THEN GatherText
     ELSE dpc' = "returned" /\ UNCHANGED <<txtCalls, txtArg>>
  /\ UNCHANGED <<side, frame, origin, regEvent, regText, err, decoded,
                 evCalls, evArg>>
  /\ UNCHANGED <<cvars, rvars>>

\* the gathered handlers are done: _ontext_handler returns
RouteHandlersDone ==
  /\ side = "route"
  /\ dpc \in {"evgather", "txtgather"}
  /\ dpc' = "returned"
  /\ UNCHANGED <<side, frame, origin, regEvent, regText, err, decoded,
                 evCalls, evArg, txtCalls, txtArg>>
  /\ UNCHANGED <<cvars, rvars>>

\* ---- MokeiWebSocketClient._ontext_handler ----
\* `'event' not in event_data or 'data' not in event_data` and the two
\* subscripts, for what json.loads can return: "go", "return" or "TypeError"
ClientFieldTest(v) ==
  CASE v[1] = "dict" ->
         IF HasKey(v, "event") /\ HasKey(v, "data") THEN "go" ELSE "return"
    [] v[1] = "list" ->
         IF \A w \in {"event", "data"} : \E i \in 1..Len(v[3]) : v[3][i] = Str(w)
         THEN "TypeError" ELSE "return"
    [] v[1] = "str" -> "return"
    [] OTHER -> "TypeError"

\* up to its first await, or to its return or exception
ClientOnText ==
  /\ side = "client"
  /\ dpc = "idle"
  /\ IF ~frame.marker
     THEN /\ GatherText
          /\ UNCHANGED <<err, decoded, evCalls, evArg>>
     ELSE LET r == Loads(frame.rest) IN
       IF ~r.ok THEN DispatchRaises("decode")
       ELSE IF ClientFieldTest(r.val) = "TypeError" THEN DispatchRaises("type")
       ELSE IF ClientFieldTest(r.val) = "return" THEN DispatchDrops
       ELSE LET event == Get(r.val, "event")
                data == Get(r.val, "data")
            IN  IF ~Hashable(event) THEN DispatchRaises("type")
                ELSE /\ dpc' = "evgather"
                     /\ decoded' = <<event, data>>
                     \* self._handlers[event]: a defaultdict, [] for a new key
                     /\ evCalls' = IF event[1] = "str" /\ event[2] \in EventNames
                                   THEN [evCalls EXCEPT ![event[2]] =
                                           CallEach(@, regEvent[event[2]])]
                                   ELSE evCalls
                     /\ evArg' = data
                     /\ UNCHANGED <<err, txtCalls, txtArg>>
  /\ UNCHANGED <<side, frame, origin, regEvent, regText>>
  /\ UNCHANGED <<cvars, rvars>>

\* ClientEventGatherDone with the text handlers in an else branch, as on
\* the route: the dispatch returns after the event's handlers.
ClientEventGatherDoneReturns ==
  /\ side = "client"
  /\ dpc = "evgather"
  /\ dpc' = "returned"
  /\ UNCHANGED <<side, frame, origin, regEvent, regText, err, decoded,
                 evCalls, evArg, txtCalls, txtArg>>
  /\ UNCHANGED <<cvars, rvars>>

\* the event's handlers are done: the text handlers are gathered
ClientEventGatherDone ==
  /\ side = "client"
  /\ dpc = "evgather"
  /\ GatherText
  /\ UNCHANGED <<side, frame, origin, regEvent, regText, err, decoded,
                 evCalls, evArg>>
  /\ UNCHANGED <<cvars, rvars>>

\* the text handlers are done: _ontext_handler returns
ClientTextGatherDone ==
  /\ side = "client"
  /\ dpc = "txtgather"
  /\ dpc' = "returned"
  /\ UNCHANGED <<side, frame, origin, regEvent, regText, err, decoded,
                 evCalls, evArg, txtCalls, txtArg>>
  /\ UNCHANGED <<cvars, rvars>>

\* ------------------------------------------------------- specification ---
ClientInit ==
  /\ session = "none"
  /\ pc = [t \in Tasks |-> "idle"]
  /\ ws = 0
  /\ up = FALSE
  /\ backoff = DefaultBackoff * Scale
  /\ unsent = <<>>
  /\ inflight = [t \in Tasks |-> 0]
  /\ inflightConn = [t \in Tasks |-> 0]
  /\ nconn = 0
  /\ nfail = 0
  /\ frames = 0
  /\ exitWhy = "none"
  /\ closeCalled = FALSE
  /\ handed = {}
  /\ notified = [c \in Conns |-> 0]
  /\ atConnect = {}
  /\ ev = Ev("init", Loop, 0)
  /\ delay = 0
  /\ sinceReset = 0

RouteInit ==
  /\ sockets = {}
  /\ hstate = [h \in Handles |-> "new"]
  /\ rnotified = [h \in Handles |-> 0]
  /\ bstate = [b \in Bcasts |-> "idle"]
  /\ recipients = [b \in Bcasts |-> {}]
  /\ pending = [b \in Bcasts |-> {}]
  /\ removeSockets = [b \in Bcasts |-> {}]
  /\ expected = [b \in Bcasts |-> {}]
  /\ sent = [b \in Bcasts |-> [h \in Handles |-> 0]]
  /\ failedIn = [b \in Bcasts |-> {}]
  /\ evicted = {}

\* no dispatch is under way: an empty plain text, no handlers
DispatchIdle ==
  /\ side = "route"
  /\ frame = [marker |-> FALSE, rest |-> <<>>]
  /\ origin = <<>>
  /\ regEvent = [n \in EventNames |-> 0]
  /\ regText = 0
  /\ dpc = "off"
  /\ err = "none"
  /\ decoded = <<>>
  /\ evCalls = [n \in EventNames |-> NoCalls]
  /\ evArg = Null
  /\ txtCalls = NoCalls
  /\ txtArg = [marker |-> FALSE, rest |-> <<>>]

\* One inbound text for one _ontext_handler: any handler registration, and a
\* text that is either any of Frames or what send_event made of a pair.
DispatchInit ==
  /\ side \in {"route", "client"}
  /\ regEvent \in [EventNames -> 0..MaxHandlers]
  /\ regText \in 0..MaxHandlers
  /\ \/ origin = <<>> /\ frame \in Frames
     \/ \E e \in EventNames, d \in DataValues :
          /\ origin = <<Str(e), d>>
          /\ frame = SendEventMessage(Str(e), d)
  /\ dpc = "idle"
  /\ err = "none"
  /\ decoded = <<>>
  /\ evCalls = [n \in EventNames |-> NoCalls]
  /\ evArg = Null
  /\ txtCalls = NoCalls
  /\ txtArg = [marker |-> FALSE, rest |-> <<>>]

vars == <<cvars, rvars, dvars>>

Init == ClientInit /\ RouteInit /\ DispatchIdle

\* the steps of connect() itself
LoopStep ==
  \/ ConnectOk
  \/ ConnectFail
  \/ OnConnectDone
  \/ SendOk(Loop)
  \/ SendFail(Loop)
  \/ \E kind \in FrameKinds : RecvText(kind)
  \/ EventHandlersDone
  \/ TextHandlersDone
  \/ StreamEnd
  \/ DisconnectDone
  \/ SleepDone

ClientNext ==
  \/ Connect
  \/ LoopStep
  \/ \E m \in Senders : Send(m)
  \/ \E m \in Senders : SendOk(m)
  \/ \E m \in Senders : SendFail(m)
  \/ Drop
  \/ Close

RouteNext ==
  \/ \E h \in Handles : Admit(h)
  \/ \E h \in Handles : PeerGone(h)
  \/ \E h \in Handles : Disconnect(h)
  \/ \E b \in Bcasts, target \in TargetTuples, exclude \in ExcludeValues :
       SendText(b, target, exclude)
  \/ \E b \in Bcasts, h \in Handles : SendSettles(b, h)
  \/ \E b \in Bcasts : SendTextReturns(b)

\* the client alone
SpecClient == Init /\ [][ClientNext]_vars

\* the route alone
SpecRoute == Init /\ [][RouteNext]_vars

\* _get_backoff() called on its own
GetBackoffCall ==
  /\ sinceReset < MaxCalls
  /\ GetBackoff
  /\ UNCHANGED <<session, pc, ws, up, unsent, inflight, inflightConn, nconn,
                 nfail, frames, exitWhy, closeCalled, handed, notified,
                 atConnect, ev>>
  /\ UNCHANGED <<rvars, dvars>>

\* _reset_backoff() called on its own
ResetBackoffCall ==
  /\ backoff' = ResetBackoff
  /\ sinceReset' = 0
  /\ delay' = 0
  /\ UNCHANGED <<session, pc, ws, up, unsent, inflight, inflightConn, nconn,
                 nfail, frames, exitWhy, closeCalled, handed, notified,
                 atConnect, ev>>
  /\ UNCHANGED <<rvars, dvars>>

BackoffNext ==
  \/ GetBackoffCall
  \/ ResetBackoffCall

\* the backoff methods alone, called in any order on a new client
SpecBackoff == Init /\ [][BackoffNext]_vars

DispatchNext ==
  \/ RouteOnText
  \/ RouteHandlersDone
  \/ ClientOnText
  \/ ClientEventGatherDone
  \/ ClientTextGatherDone

\* one _ontext_handler call, of the route or of the client
\* a frame to dispatch, the client and the route as constructed
DispatchStart == ClientInit /\ RouteInit /\ DispatchInit

SpecDispatch == DispatchStart /\ [][DispatchNext]_vars

\* connect() resumes whenever what it awaits is done: ws_connect resolves,
\* gathered handlers return, send_str returns or raises, the read of a closed
\* transport ends, a sleep ends.  Frames arriving is the peer's doing.
LoopProgress ==
  \/ ConnectOk
  \/ ConnectFail
  \/ OnConnectDone
  \/ SendOk(Loop)
  \/ SendFail(Loop)
  \/ EventHandlersDone
  \/ TextHandlersDone
  \/ StreamEnd
  \/ DisconnectDone
  \/ SleepDone

FairSpecClient ==
  Init /\ [][ClientNext]_vars /\ WF_vars(LoopProgress)

\* ================================================================ claims ==
\* the messages send() has appended so far
Appended == {m \in Senders : pc[m] # "idle"}

\* connect() is awaiting handlers it dispatched an inbound frame to
Dispatching == pc[Loop] \in {"evhandlers", "txthandlers"}

\* C1: a message leaves unsent_messages only once that same message has been
\* handed to the transport: every message send() appended is still in the
\* queue or send_str has returned normally for it.
C1_RemovedOnlyAfterHandOff ==
  \A m \in Appended : m \in SetOf(unsent) \/ m \in handed

\* C2: a send() made with no connection appends its message, raises nothing
\* and calls no send_str; and while a frame of a connection is being
\* dispatched, no message that was queued when the connection was made has
\* left the queue without having been handed to the transport (a message the
\* drain stopped at, after a failed send, is still in the queue).
C2_QueuedHandedBeforeDispatch ==
  /\ (ev.kind = "send" /\ ws = 0) =>
        /\ pc[ev.task] = "done"
        /\ inflight[ev.task] = 0
        /\ unsent # <<>> /\ unsent[Len(unsent)] = ev.msg
  /\ Dispatching => \A m \in atConnect : m \in handed \/ m \in SetOf(unsent)

C4_LoopEndsOnlyByClose == pc[Loop] = "exited" => closeCalled

\* C5: once close() has been called while connect() runs, connect() ends,
\* and an end by the closed session happens only after a close().
C5_CloseEndsLoop ==
  /\ closeCalled ~> (pc[Loop] = "exited")
  /\ []((pc[Loop] = "exited" /\ exitWhy = "closed") => closeCalled)

\* C5's case: connect() has ended on the closed session after a close()
\* that came while a connection was open.
C5_Witness ==
  /\ closeCalled
  /\ pc[Loop] = "exited"
  /\ exitWhy = "closed"
  /\ nconn >= 1
  /\ notified[1] = 1

\* C6: every connection that was established and is over has had its
\* disconnect handlers called exactly once, none is ever called twice, and
\* the connection reference is cleared before the backoff sleep.
C6_DisconnectOncePerConnection ==
  /\ \A c \in Conns : notified[c] <= 1
  /\ \A c \in Conns :
        (c <= nconn /\ (c # ws \/ pc[Loop] \in {"sleep", "exited"}))
           => notified[c] = 1
  /\ pc[Loop] = "sleep" => ws = 0

\* the indicator of a set of handles
Indicator(S) == [h \in Handles |-> IF h \in S THEN 1 ELSE 0]

\* C7: a broadcast calls send_str exactly once on each handle of (the targets
\* if any is given, else the members at the call) less the excluded handles,
\* and on no other handle.
C7_RecipientSet ==
  \A b \in Bcasts : bstate[b] # "idle" => sent[b] = Indicator(expected[b])

\* C7's case: with three members, a broadcast has gone to exactly two of
\* them, the third left out, and has returned.
C7_Witness ==
  \E b \in Bcasts :
    /\ bstate[b] = "done"
    /\ sockets = Handles
    /\ expected[b] = {1, 3}
    /\ sent[b] = Indicator({1, 3})

\* C8: a broadcast never raises; it calls send_str on every recipient
\* whatever the other sends do, and has an outcome for each by the time it
\* returns; the handles broadcasts take out of sockets are handles whose send
\* failed, all of them are out when the broadcast has returned, and a handle
\* whose peer is reachable stays in sockets.
C8_PartialFailure ==
  /\ \A b \in Bcasts :
        /\ bstate[b] # "raised"
        /\ \A h \in recipients[b] : sent[b][h] = 1
        /\ failedIn[b] \subseteq recipients[b]
        /\ bstate[b] = "done" => (pending[b] = {} /\ failedIn[b] \cap sockets = {})
  /\ evicted \subseteq UNION {failedIn[b] : b \in Bcasts}
  /\ \A h \in Handles : hstate[h] = "open" => h \in sockets

\* C8's case: a broadcast to three members has returned; one send failed and
\* the broadcast took that handle out, the two others are still members.
C8_Witness ==
  \E b \in Bcasts : \E h \in Handles :
    /\ bstate[b] = "done"
    /\ recipients[b] = Handles
    /\ failedIn[b] = {h}
    /\ h \in evicted
    /\ hstate[h] = "gone"
    /\ sockets = Handles \ {h}

\* C9: while a send of a broadcast is still in flight, no step of that
\* broadcast changes sockets.
C9_EvictionAfterFanOut ==
  [][ \A b \in Bcasts :
        (bstate[b] = "sending" /\ pending'[b] # pending[b] /\ pending'[b] # {})
           => sockets' = sockets
    ]_vars

\* C10: the disconnect handlers have been called exactly once for a handle
\* whose connection is over and not at all for any other, whether or not a
\* broadcast evicted the handle first.
C10_DisconnectOncePerLifecycle ==
  \A h \in Handles : rnotified[h] = IF hstate[h] = "closed" THEN 1 ELSE 0

\* C10's case: a handle was evicted by a failed broadcast send, its peer's
\* close then ended the connection, and the handlers ran once.
C10_Witness ==
  \E h \in Handles :
    /\ h \in evicted
    /\ hstate[h] = "closed"
    /\ rnotified[h] = 1

\* ---- inbound text dispatch ----
\* the dispatch has been entered
Started == dpc \in {"evgather", "txtgather", "returned", "raised"}

\* what the text after the marker is, read as JSON
FrameValue == Loads(frame.rest)

\* the text is the marker followed by a JSON object
IsObject == frame.marker /\ FrameValue.ok /\ FrameValue.val[1] = "dict"

\* the object's 'event' and 'data' (None when missing)
FrameEvent == Get(FrameValue.val, "event")
FrameData == Get(FrameValue.val, "data")

\* the object names an event: 'event' is a non-empty string
NamesEvent == IsObject /\ FrameEvent[1] = "str" /\ FrameEvent[2] # ""

NoEventCalls == \A n \in EventNames : evCalls[n] = NoCalls
NoTextCalls == txtCalls = NoCalls

\* each of the first n handlers of a list called once, no other
EachOnce(n) == [i \in 1..MaxHandlers |-> IF i <= n THEN 1 ELSE 0]

\* C11: a text without the marker goes to the text handlers only, each once
\* with the text itself, on the route and on the client; on the route a
\* marker-prefixed object naming an event calls no text handler and no
\* handler of any other event name.
C11_TextOrEvent ==
  /\ (Started /\ ~frame.marker) =>
        /\ NoEventCalls
        /\ txtCalls = EachOnce(regText)
        /\ txtArg = frame
        /\ dpc # "raised"
  /\ (Started /\ side = "route" /\ NamesEvent) =>
        /\ NoTextCalls
        /\ \A n \in EventNames :
              evCalls[n] # NoCalls =>
                 (n = FrameEvent[2] /\ evCalls[n] = EachOnce(regEvent[n]))

\* C11's case: a text that is the JSON of an event but has no marker has
\* been dispatched, with handlers registered for that event and for text:
\* the text handlers ran and no event handler did.
C11_Witness ==
  /\ dpc = "returned"
  /\ ~frame.marker
  /\ frame.rest = Dumps(Dict(<< <<"event", Str("a")>>, <<"data", Num("1")>> >>))
  /\ regEvent["a"] = MaxHandlers
  /\ regText = MaxHandlers
  /\ txtCalls = EachOnce(MaxHandlers)
  /\ NoEventCalls

\* C12: on the route, a marker-prefixed object naming an event that no
\* handler is registered for calls no handler and returns normally.
C12_UnknownEventNoOp ==
  (Started /\ side = "route" /\ NamesEvent
     /\ (FrameEvent[2] \in EventNames => regEvent[FrameEvent[2]] = 0)) =>
        /\ dpc # "raised"
        /\ NoEventCalls
        /\ NoTextCalls

\* C13: a marker-prefixed object without 'event', or with a null or empty
\* 'event', calls no handler of any kind and raises nothing, on the route
\* and on the client.
C13_FalsyEventDropped ==
  (Started /\ IsObject
     /\ (~HasKey(FrameValue.val, "event") \/ FrameEvent \in {Null, Str("")})) =>
        /\ dpc # "raised"
        /\ NoEventCalls
        /\ NoTextCalls

\* C14: a marker followed by text that is not JSON makes the dispatch raise
\* the decode error with no handler called, on the route and on the client;
\* an object without 'event' or with a null or empty one never raises, and
\* no text that is JSON raises the decode error.
C14_MalformedRaises ==
  /\ (Started /\ frame.marker /\ frame.rest \in Malformed) =>
        /\ dpc = "raised"
        /\ err = "decode"
        /\ NoEventCalls
        /\ NoTextCalls
  /\ (Started /\ frame.marker /\ frame.rest \notin Malformed) => err # "decode"
  /\ (Started /\ IsObject
        /\ (~HasKey(FrameValue.val, "event") \/ FrameEvent \in {Null, Str("")})) =>
        dpc # "raised"

\* C14's case: the client was given the marker followed by an open brace,
\* with text handlers registered: it raised the decode error, no handler ran.
C14_Witness ==
  /\ side = "client"
  /\ frame = [marker |-> TRUE, rest |-> <<LBrace>>]
  /\ regText = MaxHandlers
  /\ dpc = "raised"
  /\ err = "decode"
  /\ NoTextCalls

\* C15: on the client, a marker-prefixed object with 'data' that names an
\* event never raises, and once the dispatch has returned every handler
\* registered for that name has been called once with the data, no handler
\* of another name has been called, and every text handler has been called
\* once with the raw text.
C15_ClientDualDispatch ==
  (Started /\ side = "client" /\ NamesEvent /\ HasKey(FrameValue.val, "data")) =>
     /\ dpc # "raised"
     /\ \A n \in EventNames :
           evCalls[n] = IF n = FrameEvent[2] THEN EachOnce(regEvent[n]) ELSE NoCalls
     /\ evArg = FrameData
     /\ dpc = "returned" => (txtCalls = EachOnce(regText) /\ txtArg = frame)
     /\ dpc # "returned" => txtCalls \in {NoCalls, EachOnce(regText)}

\* C15's case: the client has dispatched an event with a nested data value,
\* with handlers registered for the event and for text: all ran once.
C15_Witness ==
  /\ side = "client"
  /\ dpc = "returned"
  /\ frame = SendEventMessage(Str("a"), Dict(<< <<"k", List(<< Null >>)>> >>))
  /\ regEvent["a"] = MaxHandlers
  /\ regText = MaxHandlers
  /\ evCalls["a"] = EachOnce(MaxHandlers)
  /\ evArg = Dict(<< <<"k", List(<< Null >>)>> >>)
  /\ txtCalls = EachOnce(MaxHandlers)

\* C17 as stated: whatever (event, data) send_event encoded, the route's
\* dispatch of the message calls every handler registered for that event
\* name, once, with that data.
C17_RoundTripAnyEvent ==
  (Started /\ side = "route" /\ origin # <<>>) =>
     /\ evCalls[origin[1][2]] = EachOnce(regEvent[origin[1][2]])
     /\ regEvent[origin[1][2]] > 0 => evArg = origin[2]

\* C17 amended: for every (event, data) with a non-empty event name that
\* send_event encoded, the route's dispatch of the message reads the same
\* event and data and calls every handler registered for that name, once,
\* with that data, no handler of another name and no text handler.
C17_RoundTripNamedEvent ==
  (Started /\ side = "route" /\ origin # <<>> /\ origin[1][2] # "") =>
     /\ decoded = origin
     /\ \A n \in EventNames :
           evCalls[n] = IF n = origin[1][2] THEN EachOnce(regEvent[n]) ELSE NoCalls
     /\ regEvent[origin[1][2]] > 0 => evArg = origin[2]
     /\ NoTextCalls

\* C17's case: an event with a name outside ASCII and a nested data value
\* went through send_event's encoding and the route's dispatch, and the
\* handlers registered for the name got the data.
C17_Witness ==
  /\ side = "route"
  /\ dpc = "returned"
  /\ origin = <<Str(NonAscii), List(<< Num("1"), Str(NonAscii) >>)>>
  /\ decoded = origin
  /\ regEvent[NonAscii] = MaxHandlers
  /\ evCalls[NonAscii] = EachOnce(MaxHandlers)
  /\ evArg = List(<< Num("1"), Str(NonAscii) >>)

\* ---- backoff ----
\* C16: starting from the default, _get_backoff calls without a reset return
\* a non-decreasing sequence that never exceeds the maximum; each call
\* returns the value held before its own update and increases the value by
\* at least 0 and at most that value; a reset makes the value the default.
C16_BackoffSequence ==
  /\ [](/\ DefaultBackoff * Scale <= backoff
        /\ backoff <= MaxBackoff * Scale
        /\ delay <= MaxBackoff * Scale)
  /\ [][ /\ sinceReset' = 0 => backoff' = DefaultBackoff * Scale
         /\ sinceReset' = sinceReset + 1 =>
               /\ delay' = backoff
               /\ backoff <= backoff'
               /\ backoff' - backoff <= backoff
               /\ sinceReset = 0 => delay' = DefaultBackoff * Scale
               /\ sinceReset > 0 => delay <= delay'
       ]_vars

\* C16's case: the calls have grown the value to the maximum, and a call has
\* returned the maximum.
C16_Witness ==
  /\ sinceReset > 1
  /\ delay = MaxBackoff * Scale
  /\ backoff = MaxBackoff * Scale

\* C18: every successful hand-off is of a message not handed off before,
\* later in the order of the appends than every message handed off so far,
\* with every message appended before it handed off already.
C18_HandOffInOrderOnce ==
  [][ ev'.kind = "ok" =>
        /\ ev'.msg \notin handed
        /\ \A m \in handed : m < ev'.msg
        /\ \A m \in Appended : m < ev'.msg => m \in handed
    ]_vars

\* C19: every successful connect makes the backoff the default, so the
\* delay slept after the loss of an established connection is the default;
\* with no connect in between a delay is never shorter than the one before;
\* and the backoff is always between the default and the maximum.
C19_BackoffResetOnConnect ==
  /\ [](/\ DefaultBackoff * Scale <= backoff
        /\ backoff <= MaxBackoff * Scale)
  /\ [][ /\ (pc[Loop] = "connecting" /\ pc'[Loop] = "onconnect") =>
               backoff' = DefaultBackoff * Scale
         /\ (pc[Loop] # "sleep" /\ pc'[Loop] = "sleep") =>
               /\ ws # 0 => delay' = DefaultBackoff * Scale
               /\ (ws = 0 /\ sinceReset > 0) => delay <= delay'
       ]_vars

\* C19's case: connect() sleeps after the loss of its second connection,
\* which a failed attempt preceded, and the delay is the default.
C19_Witness ==
  /\ pc[Loop] = "sleep"
  /\ session = "open"
  /\ nconn = 2
  /\ nfail = 1
  /\ notified[2] = 1
  /\ sinceReset = 1
  /\ delay = DefaultBackoff * Scale

\* C20: no broadcast raises; a step of a broadcast adds no handle to sockets
\* and takes out only handles whose send failed in that broadcast; and when a
\* broadcast has returned, the handles that failed in it are out of sockets.
C20_ConcurrentEviction ==
  /\ [](\A b \in Bcasts :
          /\ bstate[b] # "raised"
          /\ bstate[b] = "done" => failedIn[b] \cap sockets = {})
  /\ [][ \A b \in Bcasts :
           (pending'[b] # pending[b] \/ bstate'[b] # bstate[b]) =>
              /\ sockets' \subseteq sockets
              /\ (sockets \ sockets') \subseteq failedIn'[b]
       ]_vars

\* C20's case: two broadcasts to all three members are in flight at once, the
\* send to the same handle has failed in both, and that handle alone is out.
C20_Witness ==
  \E h \in Handles :
    /\ bstate[1] = "sending" /\ bstate[2] = "sending"
    /\ recipients[1] = Handles /\ recipients[2] = Handles
    /\ h \in failedIn[1] /\ h \in failedIn[2]
    /\ sockets = Handles \ {h}

====
